---------------------------- MODULE Spec2Model ----------------------------
(***************************************************************************)
(* Model of the series search / recommendation engine                      *)
(* (src/moteur_recherche.py) and of its bootstrap (src/modules/engine.py). *)
(*                                                                         *)
(* Texts are strings; a character is a string of length 1.  Real numbers   *)
(* are fixed-point integers in thousandths (1.0 is 1000).                  *)
(***************************************************************************)
EXTENDS Integers, Sequences, FiniteSets, TLC

(***************************************************************************)
(* Generic helpers on strings and sequences.                               *)
(***************************************************************************)
Ch(s, i) == SubSeq(s, i, i)

StartsWith(s, p) == Len(p) <= Len(s) /\ SubSeq(s, 1, Len(p)) = p

EndsWith(s, p) == Len(p) <= Len(s) /\ SubSeq(s, Len(s) - Len(p) + 1, Len(s)) = p

\* Python's `p in s` on strings: p is a contiguous substring of s.
Contains(s, p) == \E i \in 1..(Len(s) - Len(p) + 1) : SubSeq(s, i, i + Len(p) - 1) = p

RECURSIVE Join(_, _)
\* Python's sep.join(words)
Join(words, sep) ==
    IF words = <<>> THEN ""
    ELSE IF Len(words) = 1 THEN words[1]
    ELSE words[1] \o sep \o Join(Tail(words), sep)

RECURSIVE Repeat(_, _)
\* Python's s * n
Repeat(s, n) == IF n <= 0 THEN "" ELSE s \o Repeat(s, n - 1)

Reverse(seq) == [i \in 1..Len(seq) |-> seq[Len(seq) + 1 - i]]

Range(seq) == {seq[i] : i \in 1..Len(seq)}

RECURSIVE SumSet(_, _)
\* sum of f[x] over the finite set S
SumSet(f, S) ==
    IF S = {} THEN 0
    ELSE LET x == CHOOSE y \in S : TRUE IN f[x] + SumSet(f, S \ {x})

(***************************************************************************)
(* Characters.  The module is plain ASCII: the few non-ASCII letters the   *)
(* model needs are written with one reserved ASCII character each, which   *)
(* no text of the model uses for anything else.                            *)
(***************************************************************************)
E_ACUTE == "&"        \* e with acute accent, in the class of nettoyer's regex
E_ACUTE_UPPER == "%"  \* E with acute accent: str.lower() gives E_ACUTE
A_GRAVE == "@"        \* a with grave accent, in the class of nettoyer's regex
O_UMLAUT == "#"       \* o with diaeresis: a letter that is not in the class

UpperChars == "ABCDEFGHIJKLMNOPQRSTUVWXYZ" \o E_ACUTE_UPPER
LowerChars == "abcdefghijklmnopqrstuvwxyz" \o E_ACUTE

AsciiLower == {Ch(LowerChars, i) : i \in 1..26}
DigitChars == {"0", "1", "2", "3", "4", "5", "6", "7", "8", "9"}
AccentChars == {E_ACUTE, A_GRAVE}
\* \s of the regular expressions, and what str.strip() removes
WhitespaceChars == {" ", "\t", "\n", "\r"}
\* the characters the first re.sub of nettoyer keeps
KeptChars == AsciiLower \cup DigitChars \cup AccentChars \cup WhitespaceChars

\* the lowercase letter of each uppercase letter
ToLower == [c \in {Ch(UpperChars, i) : i \in 1..Len(UpperChars)} |->
               Ch(LowerChars, CHOOSE i \in 1..Len(UpperChars) : Ch(UpperChars, i) = c)]

\* str.lower() on one character
LowerChar(c) == IF c \in DOMAIN ToLower THEN ToLower[c] ELSE c

RECURSIVE MapChars(_, _, _, _)
\* The text made of the image of each character lo..hi of s, in order, by
\* halves.  The image of character i is
\*   "lower"   str.lower() of it
\*   "special" itself if nettoyer's first regex keeps it, a space otherwise
\*   "spaces"  a space for the first character of a run of whitespace,
\*             nothing for the others of the run, itself otherwise
MapChars(quoi, s, lo, hi) ==
    IF lo > hi THEN ""
    ELSE IF lo = hi
    THEN LET c == Ch(s, lo)
         IN  CASE quoi = "lower" -> LowerChar(c)
               [] quoi = "special" -> (IF c \in KeptChars THEN c ELSE " ")
               [] quoi = "spaces" ->
                    (IF c \notin WhitespaceChars THEN c
                     ELSE IF lo > 1 /\ Ch(s, lo - 1) \in WhitespaceChars THEN "" ELSE " ")
    ELSE LET mid == (lo + hi) \div 2
         IN  MapChars(quoi, s, lo, mid) \o MapChars(quoi, s, mid + 1, hi)

\* str.lower()
LowerStr(s) == MapChars("lower", s, 1, Len(s))

\* re.sub(r"[^a-z0-9<accented letters>\s]", " ", texte)
SubNonKept(s) == MapChars("special", s, 1, Len(s))

\* re.sub(r"\s+", " ", texte): every maximal run of whitespace becomes one space
SubSpaces(s) == MapChars("spaces", s, 1, Len(s))

\* the positions of the characters of s that are not whitespace
NonBlancs(s) == {i \in 1..Len(s) : Ch(s, i) \notin WhitespaceChars}

Min(S) == CHOOSE x \in S : \A y \in S : x <= y
Max(S) == CHOOSE x \in S : \A y \in S : x >= y

\* str.strip()
Strip(s) ==
    LET nb == NonBlancs(s)
    IN  IF nb = {} THEN "" ELSE SubSeq(s, Min(nb), Max(nb))

\* mutant: the final strip() is missing
nettoyer_SansStrip(texte) == SubSpaces(SubNonKept(LowerStr(texte)))

\* nettoyer(texte): lowercase, special characters to spaces, runs of
\* whitespace to one space, strip.
nettoyer(texte) == Strip(SubSpaces(SubNonKept(LowerStr(texte))))

RECURSIVE SortedSeq(_)
\* the elements of a finite set of integers, ascending
SortedSeq(S) == IF S = {} THEN <<>> ELSE <<Min(S)>> \o SortedSeq(S \ {Min(S)})

\* str.split(): the maximal runs of non-whitespace characters, in order
Split(s) ==
    LET nb == NonBlancs(s)
        debuts == SortedSeq({i \in nb : i - 1 \notin nb})
        fins == SortedSeq({i \in nb : i + 1 \notin nb})
    IN  [k \in 1..Len(debuts) |-> SubSeq(s, debuts[k], fins[k])]

(***************************************************************************)
(* The subtitle tree read by the loader.                                   *)
(*   root      [exists, entries]: entries in os.listdir order              *)
(*   entry     [nom, isdir, listable, fichiers]                            *)
(*   fichier   [nom, lisible, contenu, membres]; for an archive, lisible   *)
(*             says that it opens as a zip and membres are its members     *)
(*   membre    [nom, lisible, contenu]                                     *)
(***************************************************************************)
Fichier(nom, lisible, contenu) ==
    [nom |-> nom, lisible |-> lisible, contenu |-> contenu, membres |-> <<>>]

Archive(nom, lisible, membres) ==
    [nom |-> nom, lisible |-> lisible, contenu |-> "", membres |-> membres]

Membre(nom, lisible, contenu) == [nom |-> nom, lisible |-> lisible, contenu |-> contenu]

Dossier(nom, fichiers) ==
    [nom |-> nom, isdir |-> TRUE, listable |-> TRUE, fichiers |-> fichiers]

\* lire_fichier(path): the text of the file, "" when it cannot be read
lire_fichier(f) == IF f.lisible THEN f.contenu ELSE ""

RECURSIVE lire_membres(_)
\* the loop over z.namelist() in lire_zip: the list `contenu`
lire_membres(membres) ==
    IF membres = <<>> THEN <<>>
    ELSE LET m == membres[1]
             name == LowerStr(m.nom)
         IN  (IF (EndsWith(name, ".srt") \/ EndsWith(name, ".txt") \/ EndsWith(name, ".zip"))
                 /\ m.lisible
              THEN <<m.contenu>> ELSE <<>>) \o lire_membres(Tail(membres))

\* lire_zip(path): the texts of the caption members, joined by a space; ""
\* when the archive cannot be opened
lire_zip(f) == IF f.lisible THEN Join(lire_membres(f.membres), " ") ELSE ""

RECURSIVE lire_dossier(_)
\* the loop over os.listdir(path) in charger_sous_titres: texte_brut
lire_dossier(fichiers) ==
    IF fichiers = <<>> THEN ""
    ELSE LET f == fichiers[1]
         IN  (IF EndsWith(f.nom, ".zip") THEN " " \o lire_zip(f)
              ELSE IF EndsWith(f.nom, ".srt") \/ EndsWith(f.nom, ".txt")
                   THEN " " \o lire_fichier(f)
                   ELSE "") \o lire_dossier(Tail(fichiers))

\* the document of one title directory: the name five times before its
\* text, or the name alone when the text is empty or only whitespace
texte_nettoye(serie_nom, texte_brut) ==
    IF Strip(texte_brut) # ""
    THEN nettoyer(Repeat(serie_nom \o " ", 5) \o texte_brut)
    ELSE nettoyer(serie_nom)

\* the directories the loader keeps: series_list
series_list(entries) ==
    SelectSeq(entries, LAMBDA d : d.isdir /\ ~StartsWith(d.nom, ".") /\ ~StartsWith(d.nom, "__"))

\* A Python dict is a sequence of [cle, valeur] in insertion order.
DictKeys(d) == [i \in 1..Len(d) |-> d[i].cle]
DictValues(d) == [i \in 1..Len(d) |-> d[i].valeur]
DictHas(d, k) == \E i \in 1..Len(d) : d[i].cle = k
DictGet(d, k) == d[CHOOSE i \in 1..Len(d) : d[i].cle = k].valeur
\* d[k] = v
DictSet(d, k, v) ==
    IF DictHas(d, k)
    THEN [i \in 1..Len(d) |-> IF d[i].cle = k THEN [cle |-> k, valeur |-> v] ELSE d[i]]
    ELSE Append(d, [cle |-> k, valeur |-> v])

RECURSIVE charger_boucle(_, _)
\* the loop over series_list in charger_sous_titres
charger_boucle(liste, corpus) ==
    IF liste = <<>> THEN corpus
    ELSE LET d == liste[1]
         IN  charger_boucle(Tail(liste),
                            DictSet(corpus, d.nom, texte_nettoye(d.nom, lire_dossier(d.fichiers))))

\* charger_sous_titres(dossier): [raised, corpus].  os.listdir of a title
\* directory that cannot be listed raises, and nothing catches it.
charger_sous_titres(root) ==
    IF ~root.exists THEN [raised |-> FALSE, corpus |-> <<>>]
    ELSE IF \E i \in 1..Len(series_list(root.entries)) : ~series_list(root.entries)[i].listable
         THEN [raised |-> TRUE, corpus |-> <<>>]
         ELSE [raised |-> FALSE, corpus |-> charger_boucle(series_list(root.entries), <<>>)]

(***************************************************************************)
(* Fixed-point arithmetic: 1.0 is 1000.                                    *)
(***************************************************************************)
UN == 1000

RECURSIVE IsqrtBetween(_, _, _)
\* the largest r in lo..hi with r * r <= n, by bisection
IsqrtBetween(n, lo, hi) ==
    IF lo >= hi THEN lo
    ELSE LET mid == (lo + hi + 1) \div 2
         IN  IF mid * mid <= n THEN IsqrtBetween(n, mid, hi) ELSE IsqrtBetween(n, lo, mid - 1)

\* floor of the square root, for 0 <= n < 2^31
Isqrt(n) == IsqrtBetween(n, 0, 46340)

\* 1000 * ln(k) for k in 1..16, rounded
LnTable == <<0, 693, 1099, 1386, 1609, 1792, 1946, 2079,
             2197, 2303, 2398, 2485, 2565, 2639, 2708, 2773>>

RECURSIVE Ln(_)
\* 1000 * ln(k), k >= 1
Ln(k) ==
    IF k <= 16 THEN LnTable[k]
    ELSE IF k % 2 = 0 THEN LnTable[2] + Ln(k \div 2)
    ELSE (Ln(k - 1) + Ln(k + 1)) \div 2

(***************************************************************************)
(* TfidfVectorizer(max_features=20000, ngram_range=(1, 3),                 *)
(* sublinear_tf=True, stop_words=STOP_WORDS_FR_OR_EN), with the defaults   *)
(* of the library for the rest: tokens are the words of two characters or  *)
(* more, idf is smoothed, rows are L2-normalised.                          *)
(***************************************************************************)
\* the words of the English stop list that the texts of the model can hold
STOP_WORDS_FR_OR_EN == {"the", "and", "of", "in", "is", "re", "you"}

max_features == 20000
NgramMin == 1
NgramMax == 3

\* the analyzer's tokens of a text
Tokens(texte) == SelectSeq(Split(texte), LAMBDA w : Len(w) >= 2 /\ w \notin STOP_WORDS_FR_OR_EN)

\* the n-grams of length n of a token list, in order
NgramsOf(tokens, n) ==
    [i \in 1..(IF Len(tokens) >= n THEN Len(tokens) - n + 1 ELSE 0) |->
        Join(SubSeq(tokens, i, i + n - 1), " ")]

RECURSIVE NgramsFrom(_, _)
NgramsFrom(tokens, n) ==
    IF n > NgramMax THEN <<>> ELSE NgramsOf(tokens, n) \o NgramsFrom(tokens, n + 1)

\* the analyzer: the terms (1-grams to 3-grams) of a text, with repetitions
Termes(texte) == NgramsFrom(Tokens(texte), NgramMin)

\* raw term frequency
Tf(terme, termes) == Cardinality({i \in 1..Len(termes) : termes[i] = terme})

\* the fitted vocabulary: every term of every document, given the term
\* lists of the documents (the cap of max_features terms is far above any
\* vocabulary of the model)
Vocabulaire(termes_docs) ==
    LET tous == UNION {Range(termes_docs[i]) : i \in 1..Len(termes_docs)}
    IN  IF Cardinality(tous) <= max_features THEN tous
        ELSE CHOOSE V \in SUBSET tous : Cardinality(V) = max_features

\* idf_: ln((1 + n) / (1 + df)) + 1
Idf(terme, termes_docs) ==
    LET n == Len(termes_docs)
        df == Cardinality({i \in 1..n : terme \in Range(termes_docs[i])})
    IN  Ln(1 + n) - Ln(1 + df) + UN

\* sublinear tf: 1 + ln(tf)
SublinearTf(tf) == IF tf = 0 THEN 0 ELSE UN + Ln(tf)

Dot(u, v) == SumSet([t \in DOMAIN u |-> u[t] * v[t]], DOMAIN u)

\* L2 normalisation of a row; a zero row stays zero
Normalise(u) ==
    LET norme == Isqrt(Dot(u, u))
    IN  [t \in DOMAIN u |-> IF norme = 0 THEN 0 ELSE (u[t] * UN) \div norme]

\* the tf-idf row of a list of terms
Ligne(termes, vocabulaire, idf_map) ==
    Normalise([t \in vocabulaire |-> (SublinearTf(Tf(t, termes)) * idf_map[t]) \div UN])

\* vectorizer.transform([texte]): the tf-idf row of a text
Transform(texte, vocabulaire, idf_map) == Ligne(Termes(texte), vocabulaire, idf_map)

\* cosine_similarity of two rows; 0 when one of them is zero
Cosine(u, v) ==
    LET nu == Isqrt(Dot(u, u))
        nv == Isqrt(Dot(v, v))
    IN  IF nu = 0 \/ nv = 0 THEN 0 ELSE (Dot(u, v) * UN) \div (nu * nv)

(***************************************************************************)
(* class Moteur                                                            *)
(***************************************************************************)
\* TfidfVectorizer.fit_transform raises ValueError on an empty vocabulary
MoteurRaises(corpus) == \A i \in 1..Len(corpus) : Termes(corpus[i].valeur) = <<>>

\* mutant: the titles are listed in reverse order, the documents are not
Moteur_SeriesInversees(corpus) ==
    LET series == Reverse(DictKeys(corpus))
        documents == DictValues(corpus)
        termes_docs == [i \in 1..Len(documents) |-> Termes(documents[i])]
        vocabulaire == Vocabulaire(termes_docs)
        idf_map == [t \in vocabulaire |-> Idf(t, termes_docs)]
    IN  [corpus |-> corpus,
         series |-> series,
         documents |-> documents,
         nb_series |-> Len(series),
         vocabulaire |-> vocabulaire,
         idf_map |-> idf_map,
         matrice |-> [i \in 1..Len(documents) |-> Ligne(termes_docs[i], vocabulaire, idf_map)]]

\* Moteur.__init__(corpus): the fields of the built engine
Moteur(corpus) ==
    LET series == DictKeys(corpus)
        documents == DictValues(corpus)
        termes_docs == [i \in 1..Len(documents) |-> Termes(documents[i])]
        vocabulaire == Vocabulaire(termes_docs)
        idf_map == [t \in vocabulaire |-> Idf(t, termes_docs)]
    IN  [corpus |-> corpus,
         series |-> series,
         documents |-> documents,
         nb_series |-> Len(series),
         vocabulaire |-> vocabulaire,
         idf_map |-> idf_map,
         matrice |-> [i \in 1..Len(documents) |-> Ligne(termes_docs[i], vocabulaire, idf_map)]]

\* The runtime decides two things the code leaves open: the iteration
\* order of a set of strings (the hash seed of the process) and the order
\* argsort gives to equal scores (numpy's default sort is not stable).
HashSeeds == {"insertion", "inverse"}
ArgsortKinds == {"stable", "instable"}

\* iteration order of a set whose elements were added in the order of seq
SetOrder(seq, hash_seed) == IF hash_seed = "insertion" THEN seq ELSE Reverse(seq)

RECURSIVE Dedup(_, _)
\* the distinct elements of seq, in order of first occurrence
Dedup(seq, acc) ==
    IF seq = <<>> THEN acc
    ELSE Dedup(Tail(seq), IF seq[1] \in Range(acc) THEN acc ELSE Append(acc, seq[1]))

RECURSIVE ArgsortFrom(_, _, _)
ArgsortFrom(scores, S, kind) ==
    IF S = {} THEN <<>>
    ELSE LET m == CHOOSE i \in S : \A j \in S \ {i} :
                      \/ scores[i] < scores[j]
                      \/ scores[i] = scores[j] /\ (IF kind = "stable" THEN i < j ELSE i > j)
         IN  <<m>> \o ArgsortFrom(scores, S \ {m}, kind)

\* scores.argsort(): the indices by ascending score
Argsort(scores, kind) == ArgsortFrom(scores, DOMAIN scores, kind)

\* mutant: the reversal [::-1] is missing
ArgsortDesc_SansInversion(scores, kind) == Argsort(scores, kind)

\* scores.argsort()[::-1]
ArgsortDesc(scores, kind) == Reverse(Argsort(scores, kind))

\* mutant: the table without the entry of avion
TRADUCTION_SansAvion ==
    << [cle |-> "ile", valeur |-> "island"],
       [cle |-> "vol", valeur |-> "flight"],
       [cle |-> "crash", valeur |-> "wreck"],
       [cle |-> "m" \o E_ACUTE \o "th", valeur |-> "meth"],
       [cle |-> "drogue", valeur |-> "drug"],
       [cle |-> "hopital", valeur |-> "hospital"],
       [cle |-> "docteur", valeur |-> "doctor"],
       [cle |-> "m" \o E_ACUTE \o "decin", valeur |-> "doctor"] >>

\* TRADUCTION_ENRICHISSEMENT, as [cle, valeur] pairs
TRADUCTION_ENRICHISSEMENT ==
    << [cle |-> "ile", valeur |-> "island"],
       [cle |-> "avion", valeur |-> "plane"],
       [cle |-> "vol", valeur |-> "flight"],
       [cle |-> "crash", valeur |-> "wreck"],
       [cle |-> "m" \o E_ACUTE \o "th", valeur |-> "meth"],
       [cle |-> "drogue", valeur |-> "drug"],
       [cle |-> "hopital", valeur |-> "hospital"],
       [cle |-> "docteur", valeur |-> "doctor"],
       [cle |-> "m" \o E_ACUTE \o "decin", valeur |-> "doctor"] >>

W_TFIDF == 3
W_IDF_CONTEXTE == 15
W_ICONIQUE_BOOST == 5
W_TITRE_MATCH == 3
\* score_final > 0.001, in thousandths
SEUIL_SCORE == 1
\* similarity > 0.15, in thousandths
SEUIL_SIMILARITE == 150

\* mots_requete_originaux
MotsOriginaux(requete) == Split(nettoyer(requete))

RECURSIVE Synonymes(_)
\* the loop that adds the translations to mots_enrichis_set
Synonymes(mots) ==
    IF mots = <<>> THEN <<>>
    ELSE (IF DictHas(TRADUCTION_ENRICHISSEMENT, mots[1])
          THEN <<DictGet(TRADUCTION_ENRICHISSEMENT, mots[1])>> ELSE <<>>) \o Synonymes(Tail(mots))

\* mots_enrichis_set, in the order the process iterates it
MotsEnrichis(originaux, hash_seed) ==
    SetOrder(Dedup(originaux \o Synonymes(originaux), <<>>), hash_seed)

\* normalisation_mots
NormalisationMots(originaux) == IF Len(originaux) > 0 THEN Len(originaux) ELSE 1

\* vec_requete: the row of requete_enrichie
VecRequete(m, enrichis) == Transform(Join(enrichis, " "), m.vocabulaire, m.idf_map)

\* scores_tfidf[i]: cosine of the enriched query and row i
ScoreTfidf(m, vec_requete, i) == Cosine(vec_requete, m.matrice[i])

\* the enriched words found in document i, as positions in the enriched list
MotsTrouves(m, enrichis, i) == {k \in 1..Len(enrichis) : Contains(m.documents[i], enrichis[k])}

\* mutant: a term without an entry in idf_map weighs nothing
IdfGet_SansDefaut(m, mot) == IF mot \in DOMAIN m.idf_map THEN m.idf_map[mot] ELSE 0

\* idf_map.get(mot, 1.0)
IdfGet(m, mot) == IF mot \in DOMAIN m.idf_map THEN m.idf_map[mot] ELSE UN

\* bonus_contexte_idf[i]: total_idf_match / normalisation_mots
BonusContexteIdf(m, enrichis, normalisation_mots, i) ==
    LET trouves == MotsTrouves(m, enrichis, i)
    IN  SumSet([k \in trouves |-> IdfGet(m, enrichis[k])], trouves) \div normalisation_mots

\* mutant: the title counts only when it starts with the query
BonusTitre_DebutSeul(m, originaux, normalisation_mots, i) ==
    IF StartsWith(m.series[i], Join(originaux, " "))
    THEN W_TITRE_MATCH * normalisation_mots * UN
    ELSE 0

\* bonus_titre[i]
BonusTitre(m, originaux, normalisation_mots, i) ==
    LET query_match == Join(originaux, " ")
        serie_slug == m.series[i]
    IN  IF normalisation_mots >= 1
           /\ (Contains(serie_slug, query_match) \/ StartsWith(serie_slug, query_match))
        THEN W_TITRE_MATCH * normalisation_mots * UN
        ELSE 0

\* any(k in mots_requete_originaux for k in declencheurs) and cible in serie_slug
RegleIconique(originaux, serie_slug, declencheurs, cible) ==
    (\E k \in declencheurs : k \in Range(originaux)) /\ Contains(serie_slug, cible)

\* bonus_iconique[i]: mots_trouves >= normalisation_mots * 0.75 and one of the rules
BonusIconique(m, originaux, enrichis, normalisation_mots, i) ==
    LET serie_slug == m.series[i]
    IN  IF 100 * Cardinality(MotsTrouves(m, enrichis, i)) >= normalisation_mots * 75
           /\ \/ RegleIconique(originaux, serie_slug,
                               {"ile", "avion", "crash", "island", "plane", "wreck"}, "lost")
              \/ RegleIconique(originaux, serie_slug, {"meth", "drogue"}, "breakingbad")
              \/ RegleIconique(originaux, serie_slug, {"hopital", "docteur", "doctor"}, "house")
        THEN W_ICONIQUE_BOOST * UN
        ELSE 0

\* the four arrays of rechercher: scores_tfidf, bonus_contexte_idf,
\* bonus_iconique, bonus_titre
SousScores(m, requete, hash_seed) ==
    LET originaux == MotsOriginaux(requete)
        enrichis == MotsEnrichis(originaux, hash_seed)
        normalisation_mots == NormalisationMots(originaux)
        vec_requete == VecRequete(m, enrichis)
    IN  [scores_tfidf |-> [i \in 1..m.nb_series |-> ScoreTfidf(m, vec_requete, i)],
         bonus_contexte_idf |->
             [i \in 1..m.nb_series |-> BonusContexteIdf(m, enrichis, normalisation_mots, i)],
         bonus_iconique |->
             [i \in 1..m.nb_series |->
                 BonusIconique(m, originaux, enrichis, normalisation_mots, i)],
         bonus_titre |->
             [i \in 1..m.nb_series |-> BonusTitre(m, originaux, normalisation_mots, i)]]

\* mutant: the sum of the four sub-scores without the weights
ScoreTotal_SansPoids(ss, i) ==
    ss.scores_tfidf[i] + ss.bonus_contexte_idf[i] + ss.bonus_iconique[i] + ss.bonus_titre[i]

\* scores[i]: the weighted combination of the four sub-scores
ScoreTotal(ss, i) ==
    ss.scores_tfidf[i] * W_TFIDF
    + ss.bonus_contexte_idf[i] * W_IDF_CONTEXTE
    + ss.bonus_iconique[i]
    + ss.bonus_titre[i]

\* the array scores of rechercher
Scores(m, ss) == [i \in 1..m.nb_series |-> ScoreTotal(ss, i)]

\* the dictionary `details` of result i
Details(ss, i) ==
    [tfidf |-> ss.scores_tfidf[i],
     exact |-> ss.bonus_contexte_idf[i],
     frequence |-> 0,
     contexte |-> ss.bonus_contexte_idf[i]]

RECURSIVE BoucleResultats_TestAvant(_, _, _, _, _, _)
\* mutant: the loop tests the length of resultats before it looks at a title
BoucleResultats_TestAvant(m, ss, scores, indices, top_k, resultats) ==
    IF indices = <<>> \/ Len(resultats) >= top_k THEN resultats
    ELSE LET i == indices[1]
             suite == IF scores[i] > SEUIL_SCORE
                      THEN Append(resultats, [serie |-> m.series[i], score |-> scores[i],
                                              details |-> Details(ss, i)])
                      ELSE resultats
         IN  BoucleResultats_TestAvant(m, ss, scores, Tail(indices), top_k, suite)

RECURSIVE BoucleResultats(_, _, _, _, _, _)
\* the loop over indices in rechercher
BoucleResultats(m, ss, scores, indices, top_k, resultats) ==
    IF indices = <<>> THEN resultats
    ELSE LET i == indices[1]
             suite == IF scores[i] > SEUIL_SCORE
                      THEN Append(resultats, [serie |-> m.series[i], score |-> scores[i],
                                              details |-> Details(ss, i)])
                      ELSE resultats
         IN  IF Len(suite) >= top_k THEN suite
             ELSE BoucleResultats(m, ss, scores, Tail(indices), top_k, suite)

\* mutant: the early return on an empty normalized query is missing
rechercher_SansRetourVide(m, requete, top_k, hash_seed, kind) ==
    LET ss == SousScores(m, requete, hash_seed)
        scores == Scores(m, ss)
    IN  [raised |-> FALSE,
         valeur |-> BoucleResultats(m, ss, scores, ArgsortDesc(scores, kind), top_k, <<>>)]

\* Moteur.rechercher(requete, top_k): [raised, valeur]
rechercher(m, requete, top_k, hash_seed, kind) ==
    IF nettoyer(requete) = "" THEN [raised |-> FALSE, valeur |-> <<>>]
    ELSE LET ss == SousScores(m, requete, hash_seed)
             scores == Scores(m, ss)
         IN  [raised |-> FALSE,
              valeur |-> BoucleResultats(m, ss, scores, ArgsortDesc(scores, kind), top_k, <<>>)]

\* self.series.index(nom): the first position of nom; 0 stands for the
\* ValueError of a name that is not in the list
IndexDe(series, nom) ==
    IF nom \in Range(series)
    THEN CHOOSE i \in 1..Len(series) : series[i] = nom /\ \A j \in 1..(i - 1) : series[j] # nom
    ELSE 0

\* mutant: the test nom in self.corpus is missing
EstConnu_SansTest(m, nom) == TRUE

\* nom in self.corpus
EstConnu(m, nom) == DictHas(m.corpus, nom)

RECURSIVE BoucleRecommandations_SansSeuil(_, _, _, _, _, _)
\* mutant: the loop without the test against the relevance floor
BoucleRecommandations_SansSeuil(m, scores, indices, exclus, top_k, recommandations) ==
    IF indices = <<>> THEN recommandations
    ELSE LET i == indices[1]
             suite == IF i \notin exclus
                      THEN Append(recommandations, [serie |-> m.series[i], score |-> scores[i]])
                      ELSE recommandations
         IN  IF Len(suite) >= top_k THEN suite
             ELSE BoucleRecommandations_SansSeuil(m, scores, Tail(indices), exclus, top_k, suite)

RECURSIVE BoucleRecommandations(_, _, _, _, _, _)
\* the loop over indices of both recommenders; exclus are the indices left out
BoucleRecommandations(m, scores, indices, exclus, top_k, recommandations) ==
    IF indices = <<>> THEN recommandations
    ELSE LET i == indices[1]
             suite == IF i \notin exclus /\ scores[i] > SEUIL_SIMILARITE
                      THEN Append(recommandations, [serie |-> m.series[i], score |-> scores[i]])
                      ELSE recommandations
         IN  IF Len(suite) >= top_k THEN suite
             ELSE BoucleRecommandations(m, scores, Tail(indices), exclus, top_k, suite)

\* scores_similarite of recommander_par_similarite
ScoresSimilarite(m, idx) == [i \in 1..m.nb_series |-> Cosine(m.matrice[idx], m.matrice[i])]

\* mutant: the test i != idx is missing
ExclusSimilarite_SansTest(idx) == {}

\* the indices recommander_par_similarite leaves out: i != idx
ExclusSimilarite(idx) == {idx}

\* Moteur.recommander_par_similarite(serie_nom, top_k): [raised, valeur].
\* The ValueError of index is caught and gives the empty list.
recommander_par_similarite(m, serie_nom, top_k, kind) ==
    IF ~EstConnu(m, serie_nom) THEN [raised |-> FALSE, valeur |-> <<>>]
    ELSE IF IndexDe(m.series, serie_nom) = 0 THEN [raised |-> FALSE, valeur |-> <<>>]
    ELSE LET idx == IndexDe(m.series, serie_nom)
             scores == ScoresSimilarite(m, idx)
         IN  [raised |-> FALSE,
              valeur |-> BoucleRecommandations(m, scores, ArgsortDesc(scores, kind),
                                               ExclusSimilarite(idx), top_k, <<>>)]

RECURSIVE IndicesAimes(_, _)
\* the loop over series_aimees: the indices of the liked rows, one per
\* liked name that is in the corpus, repetitions kept
IndicesAimes(m, series_aimees) ==
    IF series_aimees = <<>> THEN <<>>
    ELSE (IF EstConnu(m, series_aimees[1])
          THEN <<IndexDe(m.series, series_aimees[1])>> ELSE <<>>)
         \o IndicesAimes(m, Tail(series_aimees))

RECURSIVE SommeVecteurs(_, _, _)
SommeVecteurs(m, indices, t) ==
    IF indices = <<>> THEN 0 ELSE m.matrice[indices[1]][t] + SommeVecteurs(m, Tail(indices), t)

\* vecteur_profil: sum(vecteurs_series_aimees) / len(vecteurs_series_aimees)
VecteurProfil(m, indices) ==
    [t \in m.vocabulaire |-> SommeVecteurs(m, indices, t) \div Len(indices)]

\* mutant: only the first liked title is left out
ExclusProfil_PremierSeul(indices) == {indices[1]}

\* series_aimees_indices
ExclusProfil(indices) == Range(indices)

\* scores_reco of recommander_par_profil
ScoresProfil(m, aimes) ==
    [i \in 1..m.nb_series |-> Cosine(VecteurProfil(m, aimes), m.matrice[i])]

\* Moteur.recommander_par_profil(series_aimees, top_k): [raised, valeur].
\* Here the ValueError of index is not caught.
recommander_par_profil(m, series_aimees, top_k, kind) ==
    LET aimes == IndicesAimes(m, series_aimees)
    IN  IF 0 \in Range(aimes) THEN [raised |-> TRUE, valeur |-> <<>>]
        ELSE IF aimes = <<>> THEN [raised |-> FALSE, valeur |-> <<>>]
        ELSE LET scores == ScoresProfil(m, aimes)
             IN  [raised |-> FALSE,
                  valeur |-> BoucleRecommandations(m, scores, ArgsortDesc(scores, kind),
                                                   ExclusProfil(aimes), top_k, <<>>)]

(***************************************************************************)
(* The inputs of the model: subtitle trees, queries, slugs, top_k.         *)
(***************************************************************************)
TexteLost == "Island, plane!\nCRASH... wreck"
TexteMeth == "meth drug"

\* the two titles of the scenario of the design, one plain file each
ArbreScenario ==
    [exists |-> TRUE,
     entries |-> << Dossier("lostvf", <<Fichier("s01.srt", TRUE, TexteLost)>>),
                    Dossier("breakingbad", <<Fichier("s01.txt", TRUE, TexteMeth)>>) >>]

\* titles that share their text (an archive, a plain file), two one-letter
\* titles with the same text, and a title that has no caption at all
ArbreSimilaires ==
    [exists |-> TRUE,
     entries |-> << Dossier("lostvf", <<Archive("s01.zip", TRUE,
                                          <<Membre("E01.SRT", TRUE, "island plane"),
                                            Membre("e02.srt", TRUE, "crash wreck wreck"),
                                            Membre("notes.nfo", TRUE, "meth")>>)>>),
                    Dossier("v", <<Fichier("a.srt", TRUE, "island plane crash")>>),
                    Dossier("lostfr", <<Fichier("s01.srt", TRUE, TexteLost)>>),
                    Dossier("h", <<Fichier("a.txt", TRUE, "island plane crash")>>) >>]

\* titles without usable text, a hidden directory, a cache directory, a
\* plain file at the root and a title of two words
ArbreRepli ==
    [exists |-> TRUE,
     entries |-> << Dossier("house", <<>>),
                    Dossier(".git", <<Fichier("a.srt", TRUE, "doctor")>>),
                    Dossier("Dexter", <<Fichier("s01.srt", FALSE, "blood"),
                                       Archive("s02.zip", FALSE, <<Membre("a.srt", TRUE, "blood")>>),
                                       Fichier("s03.SRT", TRUE, "blood"),
                                       Fichier("s04.txt", TRUE, " \n\t")>>),
                    [nom |-> "lisezmoi.txt", isdir |-> FALSE, listable |-> FALSE, fichiers |-> <<>>],
                    Dossier("__pycache__", <<>>),
                    Dossier("doctorhouse", <<Fichier("s01.srt", TRUE, "Doctor House: hospital!"),
                                        Archive("s02.zip", TRUE, <<Membre("a.srt", FALSE, "x")>>)>>),
                    Dossier("plane crash", <<>>) >>]

\* a title directory that cannot be listed, next to one without captions
ArbreIllisible ==
    [exists |-> TRUE,
     entries |-> << Dossier("house", <<>>),
                    [nom |-> "dexter", isdir |-> TRUE, listable |-> FALSE, fichiers |-> <<>>] >>]

\* a single one-letter title without captions: no term to index
ArbreSansTerme == [exists |-> TRUE, entries |-> << Dossier("v", <<>>) >>]

\* no title directory at all, and no root at all
ArbreVide == [exists |-> TRUE, entries |-> << Dossier(".git", <<>>) >>]
ArbreAbsent == [exists |-> FALSE, entries |-> <<>>]

Arbres == {ArbreScenario, ArbreSimilaires, ArbreRepli, ArbreIllisible,
           ArbreSansTerme, ArbreVide, ArbreAbsent}

Requetes == {"", " \t", "!?", "Avion", "re", "crash", "plane  crash", "Doctor", "lost", "zz"}

Slugs == {"lostvf", "v", "inconnu"}

\* the largest top_k and the longest list of liked titles
MaxTopK == 2
MaxAimees == 2

TopKs == (-1)..MaxTopK

RECURSIVE SeqsUpTo(_, _)
\* the sequences over S of length at most n
SeqsUpTo(S, n) ==
    IF n = 0 THEN {<<>>}
    ELSE LET plus_courtes == SeqsUpTo(S, n - 1)
         IN  plus_courtes \cup {Append(q, x) : q \in plus_courtes, x \in S}

Profils == SeqsUpTo(Slugs, MaxAimees)

(***************************************************************************)
(* The process: the globals of modules/engine.py, the cache file, the      *)
(* subtitle tree, and the last call made to the engine.                    *)
(*   A value that may be None is <<>> (None) or <<x>>.                     *)
(***************************************************************************)
VARIABLES
    arbre,          \* the tree under DOSSIER_SOUS_TITRES
    cache,          \* CACHE_FILE: [etat, contenu]
    etat,           \* "init", "pret", "exit" (sys.exit(1)) or "crash" (uncaught exception)
    moteur,         \* the global moteur
    systeme_reco,   \* the global systeme_reco
    charge,         \* the local corpus of initialiser_moteur: what charger_sous_titres gave
    hash_seed,      \* the set iteration order of this process
    argsort_kind,   \* the tie order of numpy's argsort on this installation
    appel,          \* the call to the engine being answered, and its outcome
    precedent,      \* an answer of rechercher that a client has kept, with its index
    texte,          \* the argument of a call of nettoyer
    propre,         \* what that call returned (None before the call)
    invocations,    \* where each concurrent run of initialiser_moteur stands
    connection_pool,      \* the number of connections of the pool that are checked out
    bdd_mapping_cache,    \* the global bdd_mapping_cache: None, or the slugs of the mapping
    bdd_mapping_perime,   \* more than BDD_CACHE_TTL seconds have passed since bdd_mapping_timestamp
    reponse         \* the last HTTP response of a handler that uses the database

\* the state of the engine, and the state of the other parts of the program
vars_moteur == <<arbre, cache, etat, moteur, systeme_reco, charge, hash_seed, argsort_kind,
                 appel, precedent>>
vars_nettoyer == <<texte, propre>>
vars_bdd == <<connection_pool, bdd_mapping_cache, bdd_mapping_perime, reponse>>
hors_moteur == <<vars_nettoyer, invocations, vars_bdd>>
vars == <<vars_moteur, hors_moteur>>

None == <<>>
Some(x) == <<x>>

\* The fields of a Moteur object, in the order __init__ assigns them.
ChampsMoteur == <<"corpus", "series", "documents", "nb_series", "matrice", "vocabulaire", "idf_map">>

\* the value of a field of the engine
Champ(m, nom) ==
    CASE nom = "corpus" -> m.corpus
      [] nom = "series" -> m.series
      [] nom = "documents" -> m.documents
      [] nom = "nb_series" -> m.nb_series
      [] nom = "matrice" -> m.matrice
      [] nom = "vocabulaire" -> m.vocabulaire
      [] nom = "idf_map" -> m.idf_map

\* mutant: the title list is written in reverse order
PickleObjet_TitresInverses(o) ==
    IF o = None THEN <<"none">>
    ELSE <<"objet", "Moteur",
           [n \in 1..Len(ChampsMoteur) |->
               [cle |-> ChampsMoteur[n],
                valeur |-> IF ChampsMoteur[n] = "series" THEN Reverse(o[1].series)
                           ELSE Champ(o[1], ChampsMoteur[n])]]>>

\* pickle of one object: None, or the class name and the attributes as
\* [cle, valeur] pairs
PickleObjet(o) ==
    IF o = None THEN <<"none">>
    ELSE <<"objet", "Moteur",
           [n \in 1..Len(ChampsMoteur) |->
               [cle |-> ChampsMoteur[n], valeur |-> Champ(o[1], ChampsMoteur[n])]]>>

\* pickle.dump({'moteur': moteur, 'systeme_reco': systeme_reco}, f): the
\* entries of the dict in order; an object that was already written is
\* written as a reference to the entry that holds it
Pickle(m, r) ==
    << [cle |-> "moteur", valeur |-> PickleObjet(m)],
       [cle |-> "systeme_reco",
        valeur |-> IF r # None /\ r = m THEN <<"reference", "moteur">> ELSE PickleObjet(r)] >>

\* mutant: the IDF table is not restored, every term gets 1.0
UnpickleObjet_SansIdf(v, entrees) ==
    LET w == IF v[1] = "reference" THEN DictGet(entrees, v[2]) ELSE v
    IN  IF w[1] = "none" THEN None
        ELSE Some([corpus |-> DictGet(w[3], "corpus"),
                   series |-> DictGet(w[3], "series"),
                   documents |-> DictGet(w[3], "documents"),
                   nb_series |-> DictGet(w[3], "nb_series"),
                   vocabulaire |-> DictGet(w[3], "vocabulaire"),
                   idf_map |-> [t \in DictGet(w[3], "vocabulaire") |-> UN],
                   matrice |-> DictGet(w[3], "matrice")])

\* the object an entry value stands for, given the pickled entries
UnpickleObjet(v, entrees) ==
    LET w == IF v[1] = "reference" THEN DictGet(entrees, v[2]) ELSE v
    IN  IF w[1] = "none" THEN None
        ELSE Some([corpus |-> DictGet(w[3], "corpus"),
                   series |-> DictGet(w[3], "series"),
                   documents |-> DictGet(w[3], "documents"),
                   nb_series |-> DictGet(w[3], "nb_series"),
                   vocabulaire |-> DictGet(w[3], "vocabulaire"),
                   idf_map |-> DictGet(w[3], "idf_map"),
                   matrice |-> DictGet(w[3], "matrice")])

\* pickle.load(f) followed by cache_data['moteur'], cache_data['systeme_reco']
Unpickle(entrees) ==
    [moteur |-> UnpickleObjet(DictGet(entrees, "moteur"), entrees),
     systeme_reco |-> UnpickleObjet(DictGet(entrees, "systeme_reco"), entrees)]

CacheAbsent == [etat |-> "absent", contenu |-> <<>>]
\* a file that pickle.load rejects
CacheCorrompu == [etat |-> "corrompu", contenu |-> <<>>]
\* the file that pickle.dump writes for the globals m and r (None or <<engine>>)
CacheDe(m, r) == [etat |-> "valide", contenu |-> Pickle(m, r)]

\* the cache files a process can find when it starts: none, one that does
\* not load, and, for a tree that gives an engine, a file that loads but
\* holds the engine without the recommender
CachesInitiaux(a) ==
    LET c == charger_sous_titres(a)
    IN  {CacheAbsent, CacheCorrompu}
        \cup (IF ~c.raised /\ c.corpus # <<>> /\ ~MoteurRaises(c.corpus)
              THEN {CacheDe(Some(Moteur(c.corpus)), None)} ELSE {})

\* no call of nettoyer
NettoyerAuRepos == texte = "" /\ propre = None

\* no connection out, no mapping, no response
BddAuRepos ==
    /\ connection_pool = 0
    /\ bdd_mapping_cache = None
    /\ bdd_mapping_perime = FALSE
    /\ reponse = None

\* nothing but the engine is at work
AuRepos == NettoyerAuRepos /\ invocations = <<>> /\ BddAuRepos

AucunAppel == [op |-> "aucun", arg |-> None, top_k |-> 0, raised |-> FALSE, valeur |-> <<>>]

Init ==
    /\ arbre \in Arbres
    /\ cache \in CachesInitiaux(arbre)
    /\ etat = "init"
    /\ moteur = None
    /\ systeme_reco = None
    /\ charge = None
    /\ hash_seed \in HashSeeds
    /\ argsort_kind \in ArgsortKinds
    /\ appel = AucunAppel
    /\ precedent = None
    /\ AuRepos

\* the outcomes of os.remove(CACHE_FILE): done, or OSError (passed over)
Suppressions == {"ok", "echec"}

\* the outcomes of writing the cache file: written, or an exception that
\* leaves the file as it was
Ecritures == {"ok", "echec"}

\* what the run of initialiser_moteur did: the outcome of
\* charger_sous_titres, the outcome of the write ("aucune" when the function
\* did not get that far), and the cache file it found
Charge(c, ecriture) ==
    Some([raised |-> c.raised, corpus |-> c.corpus, ecriture |-> ecriture,
          cache_trouve |-> cache.etat])

\* mutant: the rebuilt engine is not installed as systeme_reco
Construire_SansReco(cache_avant, ecriture) ==
    LET c == charger_sous_titres(arbre)
    IN  IF c.raised \/ (c.corpus # <<>> /\ MoteurRaises(c.corpus))
        THEN /\ etat' = "crash"
             /\ charge' = Charge(c, "aucune")
             /\ cache' = cache_avant
             /\ UNCHANGED <<moteur, systeme_reco>>
        ELSE IF c.corpus = <<>>
        THEN /\ etat' = "exit"
             /\ charge' = Charge(c, "aucune")
             /\ cache' = cache_avant
             /\ UNCHANGED <<moteur, systeme_reco>>
        ELSE /\ etat' = "pret"
             /\ charge' = Charge(c, ecriture)
             /\ moteur' = Some(Moteur(c.corpus))
             /\ systeme_reco' = systeme_reco
             /\ cache' = IF ecriture = "ok" THEN CacheDe(moteur', systeme_reco')
                         ELSE cache_avant

\* mutant: an empty corpus does not stop the build
Construire_SansSortie(cache_avant, ecriture) ==
    LET c == charger_sous_titres(arbre)
    IN  IF c.raised
        THEN /\ etat' = "crash"
             /\ charge' = Charge(c, "aucune")
             /\ cache' = cache_avant
             /\ UNCHANGED <<moteur, systeme_reco>>
        ELSE /\ etat' = "pret"
             /\ charge' = Charge(c, ecriture)
             /\ moteur' = Some(Moteur(c.corpus))
             /\ systeme_reco' = moteur'
             /\ cache' = IF ecriture = "ok" THEN CacheDe(moteur', systeme_reco')
                         ELSE cache_avant

\* initialiser_moteur(), lines 41-56: build from the subtitles, write the cache
Construire(cache_avant, ecriture) ==
    LET c == charger_sous_titres(arbre)
    IN  IF c.raised \/ (c.corpus # <<>> /\ MoteurRaises(c.corpus))
        THEN /\ etat' = "crash"
             /\ charge' = Charge(c, "aucune")
             /\ cache' = cache_avant
             /\ UNCHANGED <<moteur, systeme_reco>>
        ELSE IF c.corpus = <<>>
        THEN /\ etat' = "exit"
             /\ charge' = Charge(c, "aucune")
             /\ cache' = cache_avant
             /\ UNCHANGED <<moteur, systeme_reco>>
        ELSE /\ etat' = "pret"
             /\ charge' = Charge(c, ecriture)
             /\ moteur' = Some(Moteur(c.corpus))
             /\ systeme_reco' = moteur'
             /\ cache' = IF ecriture = "ok" THEN CacheDe(moteur', systeme_reco')
                         ELSE cache_avant

\* initialiser_moteur()
initialiser_moteur ==
    /\ UNCHANGED hors_moteur
    /\ etat = "init"
    /\ IF cache.etat = "valide"
       THEN \* lines 27-35: the cache file loads
            /\ moteur' = Unpickle(cache.contenu).moteur
            /\ systeme_reco' = Unpickle(cache.contenu).systeme_reco
            /\ etat' = "pret"
            /\ UNCHANGED <<cache, charge>>
       ELSE \* no cache file, or one that does not load: lines 36-39 remove it
            \E suppression \in Suppressions, ecriture \in Ecritures :
                Construire(IF cache.etat = "corrompu" /\ suppression = "echec"
                           THEN cache ELSE CacheAbsent,
                           ecriture)
    /\ UNCHANGED <<arbre, hash_seed, argsort_kind, appel, precedent>>

\* mutant: the call leaves the title list of the engine in reverse order
Rechercher_AvecEffet(requete, top_k) ==
    /\ UNCHANGED hors_moteur
    /\ etat = "pret"
    /\ moteur # None
    /\ appel = AucunAppel
    /\ LET r == rechercher(moteur[1], requete, top_k, hash_seed, argsort_kind)
       IN  appel' = [op |-> "rechercher", arg |-> requete, top_k |-> top_k,
                     raised |-> r.raised, valeur |-> r.valeur]
    /\ moteur' = Some([moteur[1] EXCEPT !.series = Reverse(@)])
    /\ UNCHANGED <<arbre, cache, etat, systeme_reco, charge, hash_seed, argsort_kind,
                   precedent>>

\* a call of Moteur.rechercher on the global moteur
Rechercher(requete, top_k) ==
    /\ UNCHANGED hors_moteur
    /\ etat = "pret"
    /\ moteur # None
    /\ appel = AucunAppel
    /\ LET r == rechercher(moteur[1], requete, top_k, hash_seed, argsort_kind)
       IN  appel' = [op |-> "rechercher", arg |-> requete, top_k |-> top_k,
                     raised |-> r.raised, valeur |-> r.valeur]
    /\ UNCHANGED <<arbre, cache, etat, moteur, systeme_reco, charge, hash_seed, argsort_kind,
                   precedent>>

\* a call of Moteur.recommander_par_similarite on the global systeme_reco
RecommanderParSimilarite(serie_nom, top_k) ==
    /\ UNCHANGED hors_moteur
    /\ etat = "pret"
    /\ systeme_reco # None
    /\ appel = AucunAppel
    /\ LET r == recommander_par_similarite(systeme_reco[1], serie_nom, top_k, argsort_kind)
       IN  appel' = [op |-> "similarite", arg |-> serie_nom, top_k |-> top_k,
                     raised |-> r.raised, valeur |-> r.valeur]
    /\ UNCHANGED <<arbre, cache, etat, moteur, systeme_reco, charge, hash_seed, argsort_kind,
                   precedent>>

\* a call of Moteur.recommander_par_profil on the global systeme_reco
RecommanderParProfil(series_aimees, top_k) ==
    /\ UNCHANGED hors_moteur
    /\ etat = "pret"
    /\ systeme_reco # None
    /\ appel = AucunAppel
    /\ LET r == recommander_par_profil(systeme_reco[1], series_aimees, top_k, argsort_kind)
       IN  appel' = [op |-> "profil", arg |-> series_aimees, top_k |-> top_k,
                     raised |-> r.raised, valeur |-> r.valeur]
    /\ UNCHANGED <<arbre, cache, etat, moteur, systeme_reco, charge, hash_seed, argsort_kind,
                   precedent>>

\* the caller has taken the result of its call
Repondre ==
    /\ UNCHANGED hors_moteur
    /\ appel # AucunAppel
    /\ appel' = AucunAppel
    /\ UNCHANGED <<arbre, cache, etat, moteur, systeme_reco, charge, hash_seed, argsort_kind,
                   precedent>>

\* the process ends and a new one starts: the globals are those of
\* modules/engine.py at import, the files stay
Redemarrer ==
    /\ UNCHANGED hors_moteur
    /\ etat \in {"pret", "exit", "crash"}
    /\ etat' = "init"
    /\ moteur' = None
    /\ systeme_reco' = None
    /\ charge' = None
    /\ appel' = AucunAppel
    /\ hash_seed' \in HashSeeds
    /\ UNCHANGED <<arbre, cache, argsort_kind, precedent>>

Next ==
    \/ initialiser_moteur
    \/ \E requete \in Requetes, top_k \in TopKs : Rechercher(requete, top_k)
    \/ \E serie_nom \in Slugs, top_k \in TopKs : RecommanderParSimilarite(serie_nom, top_k)
    \/ \E series_aimees \in Profils, top_k \in TopKs : RecommanderParProfil(series_aimees, top_k)
    \/ Repondre
    \/ Redemarrer

Spec == Init /\ [][Next]_vars

\* the queries whose answers the client compares
RequetesRetenues == {"plane  crash", "lost", "re"}

\* a client keeps the answer of its search, with the index that gave it, to
\* compare it with a later answer
Retenir ==
    /\ UNCHANGED hors_moteur
    /\ appel.op = "rechercher"
    /\ appel.arg \in RequetesRetenues
    /\ precedent = None
    /\ precedent' = Some([moteur |-> moteur[1], arg |-> appel.arg, top_k |-> appel.top_k,
                          valeur |-> appel.valeur])
    /\ UNCHANGED <<arbre, cache, etat, moteur, systeme_reco, charge, hash_seed, argsort_kind,
                   appel>>

\* the program with that client, every call asking for MaxTopK results
NextRetenir ==
    \/ initialiser_moteur
    \/ \E requete \in Requetes : Rechercher(requete, MaxTopK)
    \/ \E serie_nom \in Slugs : RecommanderParSimilarite(serie_nom, MaxTopK)
    \/ \E series_aimees \in Profils : RecommanderParProfil(series_aimees, MaxTopK)
    \/ Repondre
    \/ Redemarrer
    \/ Retenir

SpecRetenir == Init /\ [][NextRetenir]_vars

\* between two runs of the process, the folder of subtitles gets other
\* content; the cache file stays
ChangerCorpus ==
    /\ UNCHANGED hors_moteur
    /\ etat = "init"
    /\ arbre' \in Arbres \ {arbre}
    /\ UNCHANGED <<cache, etat, moteur, systeme_reco, charge, hash_seed, argsort_kind,
                   appel, precedent>>

\* the bootstrap over a folder that changes between runs
NextChangement ==
    \/ initialiser_moteur
    \/ Redemarrer
    \/ ChangerCorpus

SpecChangement == Init /\ [][NextChangement]_vars

(***************************************************************************)
(* nettoyer alone, on every text of a small alphabet                       *)
(***************************************************************************)
\* the longest text
MaxTexte == 3

\* an uppercase and a lowercase letter, a digit, an accented letter of the
\* class of the regex in both cases, an accented letter that is not in the
\* class, two kinds of whitespace and a punctuation mark
Alphabet == {"A", "b", "7", E_ACUTE, E_ACUTE_UPPER, O_UMLAUT, " ", "\t", "!"}

Textes == {Join(q, "") : q \in SeqsUpTo(Alphabet, MaxTexte)}

\* the engine is not started
MoteurAuRepos ==
    /\ arbre = ArbreAbsent
    /\ cache = CacheAbsent
    /\ etat = "init"
    /\ moteur = None
    /\ systeme_reco = None
    /\ charge = None
    /\ hash_seed = "insertion"
    /\ argsort_kind = "stable"
    /\ appel = AucunAppel
    /\ precedent = None

InitNettoyer ==
    /\ texte \in Textes
    /\ propre = None
    /\ MoteurAuRepos
    /\ invocations = <<>>
    /\ BddAuRepos

\* the call nettoyer(texte)
AppelNettoyer ==
    /\ propre = None
    /\ propre' = Some(nettoyer(texte))
    /\ UNCHANGED <<texte, vars_moteur, invocations, vars_bdd>>

NextNettoyer == AppelNettoyer

SpecNettoyer == InitNettoyer /\ [][NextNettoyer]_vars

(***************************************************************************)
(* Several runs of initialiser_moteur at the same time (processes started  *)
(* together on the same folder and the same cache file), step by step.     *)
(* The function takes no lock and no file lock.                            *)
(***************************************************************************)
\* the number of concurrent runs
NbInvocations == 2

Processus == 1..NbInvocations

InitConcurrent ==
    /\ arbre \in Arbres
    /\ cache \in CachesInitiaux(arbre)
    /\ invocations = [p \in Processus |-> "debut"]
    /\ etat = "init"
    /\ moteur = None
    /\ systeme_reco = None
    /\ charge = None
    /\ hash_seed = "insertion"
    /\ argsort_kind = "stable"
    /\ appel = AucunAppel
    /\ precedent = None
    /\ NettoyerAuRepos
    /\ BddAuRepos

\* lines 27-39: the test of os.path.exists(CACHE_FILE); the cache loads and
\* the run returns, or it does not load and is removed, or there is none
Entrer(p) ==
    /\ invocations[p] = "debut"
    /\ IF cache.etat = "valide"
       THEN /\ invocations' = [invocations EXCEPT ![p] = "pret"]
            /\ cache' = cache
       ELSE /\ invocations' = [invocations EXCEPT ![p] = "construction"]
            /\ \E suppression \in Suppressions :
                   cache' = IF cache.etat = "corrompu" /\ suppression = "ok"
                            THEN CacheAbsent ELSE cache
    /\ UNCHANGED <<arbre, etat, moteur, systeme_reco, charge, hash_seed, argsort_kind,
                   appel, precedent, vars_nettoyer, vars_bdd>>

\* lines 41-49: charger_sous_titres, sys.exit(1) on an empty corpus, Moteur(corpus)
Batir(p) ==
    /\ invocations[p] = "construction"
    /\ LET c == charger_sous_titres(arbre)
       IN  invocations' =
               [invocations EXCEPT ![p] =
                   IF c.raised \/ (c.corpus # <<>> /\ MoteurRaises(c.corpus)) THEN "crash"
                   ELSE IF c.corpus = <<>> THEN "exit"
                   ELSE "ecriture"]
    /\ UNCHANGED <<vars_moteur, vars_nettoyer, vars_bdd>>

\* lines 51-56: the engine is written to CACHE_FILE, or the write fails
Ecrire(p) ==
    /\ invocations[p] = "ecriture"
    /\ invocations' = [invocations EXCEPT ![p] = "pret"]
    /\ \E ecriture \in Ecritures :
           cache' = IF ecriture = "ok"
                    THEN LET m == Some(Moteur(charger_sous_titres(arbre).corpus))
                         IN  CacheDe(m, m)
                    ELSE cache
    /\ UNCHANGED <<arbre, etat, moteur, systeme_reco, charge, hash_seed, argsort_kind,
                   appel, precedent, vars_nettoyer, vars_bdd>>

NextConcurrent ==
    \/ \E p \in Processus : Entrer(p)
    \/ \E p \in Processus : Batir(p)
    \/ \E p \in Processus : Ecrire(p)

SpecConcurrent == InitConcurrent /\ [][NextConcurrent]_vars

(***************************************************************************)
(* The handlers that use the database, one request at a time, on a process *)
(* whose start went well.  connection_pool counts the connections that     *)
(* getconn gave and putconn has not taken back.                            *)
(***************************************************************************)
\* SimpleConnectionPool(1, 10, ...)
maxconn == 10

\* the outcomes of a cur.execute (or commit): done, or an exception of psycopg2
Issues == {"ok", "erreur"}

\* the slugs of the rows of table series when a SELECT reads it
TablesSeries == {{}, {"lostvf"}}

Reponse(route, code) == Some([route |-> route, code |-> code])

\* main.py, lines 22-25, went through: the pool exists, the engine is that of
\* ArbreScenario, preparer_mapping_bdd() has read the table
InitBdd ==
    /\ arbre = ArbreScenario
    /\ cache = CacheAbsent
    /\ etat = "pret"
    /\ moteur = Some(Moteur(charger_sous_titres(ArbreScenario).corpus))
    /\ systeme_reco = moteur
    /\ charge = None
    /\ hash_seed = "insertion"
    /\ argsort_kind = "stable"
    /\ appel = AucunAppel
    /\ precedent = None
    /\ NettoyerAuRepos
    /\ invocations = <<>>
    /\ connection_pool = 0
    /\ bdd_mapping_cache \in {Some(t) : t \in TablesSeries}
    /\ bdd_mapping_perime = FALSE
    /\ reponse = None

\* time.time() goes past bdd_mapping_timestamp + BDD_CACHE_TTL
Attendre ==
    /\ ~bdd_mapping_perime
    /\ bdd_mapping_perime' = TRUE
    /\ UNCHANGED <<vars_moteur, vars_nettoyer, invocations, connection_pool,
                   bdd_mapping_cache, reponse>>

\* preparer_mapping_bdd(): the mapping in cache if it is not empty and not
\* too old; else a connection, the SELECT, the release, the new mapping.
\* [raised, sorties, mapping, perime]
preparer_mapping_bdd(issue, lignes) ==
    IF bdd_mapping_cache # None /\ bdd_mapping_cache[1] # {} /\ ~bdd_mapping_perime
    THEN [raised |-> FALSE, sorties |-> connection_pool, mapping |-> bdd_mapping_cache,
          perime |-> bdd_mapping_perime]
    ELSE IF connection_pool >= maxconn
    THEN \* getconn raises PoolError
         [raised |-> TRUE, sorties |-> connection_pool, mapping |-> bdd_mapping_cache,
          perime |-> bdd_mapping_perime]
    ELSE IF issue = "erreur"
    THEN \* cur.execute raises at line 62: line 65 is not reached
         [raised |-> TRUE, sorties |-> connection_pool + 1, mapping |-> bdd_mapping_cache,
          perime |-> bdd_mapping_perime]
    ELSE [raised |-> FALSE, sorties |-> connection_pool, mapping |-> Some(lignes),
          perime |-> FALSE]

\* GET /series
lister_series(issue, lignes) ==
    /\ IF moteur = None
       THEN /\ reponse' = Reponse("lister_series", 503)
            /\ UNCHANGED <<connection_pool, bdd_mapping_cache, bdd_mapping_perime>>
       ELSE LET r == preparer_mapping_bdd(issue, lignes)
            IN  /\ connection_pool' = r.sorties
                /\ bdd_mapping_cache' = r.mapping
                /\ bdd_mapping_perime' = r.perime
                /\ reponse' = Reponse("lister_series", IF r.raised THEN 500 ELSE 200)
    /\ UNCHANGED <<vars_moteur, vars_nettoyer, invocations>>

\* GET /series/<serie_id>: two SELECTs; the connection is released on the
\* two paths that reach line 32 or line 37
details_serie(issue_serie, trouvee, issue_notes) ==
    /\ IF connection_pool >= maxconn
       THEN /\ reponse' = Reponse("details_serie", 500)
            /\ connection_pool' = connection_pool
       ELSE IF issue_serie = "erreur"
       THEN /\ reponse' = Reponse("details_serie", 500)
            /\ connection_pool' = connection_pool + 1
       ELSE IF ~trouvee
       THEN /\ reponse' = Reponse("details_serie", 404)
            /\ connection_pool' = connection_pool
       ELSE IF issue_notes = "erreur"
       THEN /\ reponse' = Reponse("details_serie", 500)
            /\ connection_pool' = connection_pool + 1
       ELSE /\ reponse' = Reponse("details_serie", 200)
            /\ connection_pool' = connection_pool
    /\ UNCHANGED <<vars_moteur, vars_nettoyer, invocations, bdd_mapping_cache,
                   bdd_mapping_perime>>

\* POST /utilisateur/<user_id>/noter: the release is in a finally clause
noter_serie(issue) ==
    /\ reponse' = Reponse("noter_serie",
                          IF connection_pool >= maxconn \/ issue = "erreur" THEN 500 ELSE 200)
    /\ UNCHANGED <<vars_moteur, vars_nettoyer, invocations, connection_pool,
                   bdd_mapping_cache, bdd_mapping_perime>>

\* DELETE or GET /utilisateur/<user_id>/series/<serie_id>/note
gestion_note(methode, issue, trouvee) ==
    /\ IF connection_pool >= maxconn
       THEN /\ reponse' = Reponse("gestion_note", 500)
            /\ connection_pool' = connection_pool
       ELSE IF issue = "erreur"
       THEN /\ reponse' = Reponse("gestion_note", 500)
            /\ connection_pool' = connection_pool + 1
       ELSE /\ reponse' = Reponse("gestion_note",
                                  IF methode = "DELETE" /\ ~trouvee THEN 404 ELSE 200)
            /\ connection_pool' = connection_pool
    /\ UNCHANGED <<vars_moteur, vars_nettoyer, invocations, bdd_mapping_cache,
                   bdd_mapping_perime>>

NextBdd ==
    \/ Attendre
    \/ \E issue \in Issues, lignes \in TablesSeries : lister_series(issue, lignes)
    \/ \E issue_serie, issue_notes \in Issues, trouvee \in BOOLEAN :
           details_serie(issue_serie, trouvee, issue_notes)
    \/ \E issue \in Issues : noter_serie(issue)
    \/ \E methode \in {"DELETE", "GET"}, issue \in Issues, trouvee \in BOOLEAN :
           gestion_note(methode, issue, trouvee)

SpecBdd == InitBdd /\ [][NextBdd]_vars

(***************************************************************************)
(* Properties                                                              *)
(***************************************************************************)
\* the titles of the answer of the call, in order
TitresRendus == [k \in 1..Len(appel.valeur) |-> appel.valeur[k].serie]

\* C1: for every index, every title t of it and every top_k, the result of
\* recommander_par_similarite(t, top_k) never contains t itself.
C1_SimilariteSansLeTitre ==
    appel.op = "similarite" => appel.arg \notin Range(TitresRendus)

\* C1 happens: a title of the index was asked and got recommendations
C1_Temoin ==
    /\ appel.op = "similarite"
    /\ appel.arg \in Range(systeme_reco[1].series)
    /\ appel.valeur # <<>>

\* C2: for every list of liked slugs (known, unknown or repeated) and every
\* top_k, the result of recommander_par_profil contains no slug of the list.
C2_ProfilSansLesAimees ==
    appel.op = "profil" => Range(TitresRendus) \cap Range(appel.arg) = {}

\* C2 happens: a list of two different titles of the index got recommendations
C2_Temoin ==
    /\ appel.op = "profil"
    /\ appel.valeur # <<>>
    /\ Len(appel.arg) = 2
    /\ appel.arg[1] # appel.arg[2]
    /\ Range(appel.arg) \subseteq Range(systeme_reco[1].series)

\* C3: in every state that has an engine, its title list is the key list of
\* its corpus without repetition (the corpus the loader gave, when this
\* process built the engine), and title i, document i and matrix row i are
\* those of the same title: document i is the text of title i in the corpus
\* and row i is the tf-idf row of document i.
C3_IndexAligne ==
    moteur # None =>
        LET m == moteur[1]
        IN  /\ m.series = DictKeys(m.corpus)
            /\ \A i, j \in 1..Len(m.series) : i # j => m.series[i] # m.series[j]
            /\ charge # None => Range(m.series) = Range(DictKeys(charge[1].corpus))
            /\ m.nb_series = Len(m.series)
            /\ Len(m.documents) = Len(m.series)
            /\ Len(m.matrice) = Len(m.series)
            /\ \A i \in 1..Len(m.series) :
                 /\ m.documents[i] = DictGet(m.corpus, m.series[i])
                 /\ m.matrice[i] = Transform(m.documents[i], m.vocabulaire, m.idf_map)

\* C3 happens: an engine of several titles, after a call was answered
C3_Temoin ==
    /\ moteur # None
    /\ moteur[1].nb_series >= 3
    /\ appel.op = "profil"

\* the title directories of the tree, as the loader selects them
DossiersDeTitres == IF arbre.exists THEN series_list(arbre.entries) ELSE <<>>

\* C4: once the loader has run, it has returned a corpus, every title
\* directory of the tree has an entry in it (and is in the title list of the
\* engine built from it), and the document of a directory where no content
\* was found is the normalized name of the title alone.
C4_ChaqueDossierDansLeCorpus ==
    charge # None =>
        /\ ~charge[1].raised
        /\ \A n \in 1..Len(DossiersDeTitres) :
             LET d == DossiersDeTitres[n]
             IN  /\ DictHas(charge[1].corpus, d.nom)
                 /\ moteur # None => d.nom \in Range(moteur[1].series)
                 /\ (~d.listable \/ Strip(lire_dossier(d.fichiers)) = "")
                        => DictGet(charge[1].corpus, d.nom) = nettoyer(d.nom)

\* C5: rechercher returns the empty sequence and does not raise for the
\* empty query and for every query that normalizes to the empty string,
\* whatever top_k is.
C5_RequeteVideSansResultat ==
    (appel.op = "rechercher" /\ nettoyer(appel.arg) = "")
        => (appel.valeur = <<>> /\ ~appel.raised)

\* C5 happens: a query of punctuation only was answered, top_k positive
C5_Temoin ==
    /\ appel.op = "rechercher"
    /\ appel.arg # ""
    /\ NonBlancs(appel.arg) # {}
    /\ nettoyer(appel.arg) = ""
    /\ appel.top_k >= 1

\* the slugs of a list that are titles of the engine
Connus(m, noms) == SelectSeq(noms, LAMBDA a : a \in Range(m.series))

\* C6: recommander_par_similarite on an unknown slug, and
\* recommander_par_profil on a list without a known slug (the empty list
\* too), return the empty sequence and do not raise; a profile that mixes
\* unknown and known slugs does not raise and gets the answer of its known
\* slugs alone.
C6_InconnuSansErreur ==
    /\ (appel.op = "similarite" /\ appel.arg \notin Range(systeme_reco[1].series))
           => (appel.valeur = <<>> /\ ~appel.raised)
    /\ appel.op = "profil" =>
           /\ ~appel.raised
           /\ Connus(systeme_reco[1], appel.arg) = <<>> => appel.valeur = <<>>
           /\ appel.valeur
                = recommander_par_profil(systeme_reco[1], Connus(systeme_reco[1], appel.arg),
                                         appel.top_k, argsort_kind).valeur

\* C6 happens: a profile of an unknown slug and then a known one got
\* recommendations
C6_Temoin ==
    /\ appel.op = "profil"
    /\ Len(appel.arg) = 2
    /\ appel.arg[1] \notin Range(systeme_reco[1].series)
    /\ appel.arg[2] \in Range(systeme_reco[1].series)
    /\ appel.valeur # <<>>

\* the four arrays and the combined scores of the query being answered
SousScoresAppel == SousScores(moteur[1], appel.arg, hash_seed)
ScoresAppel == Scores(moteur[1], SousScoresAppel)
\* the indices of the titles whose combined score passes the threshold
Passants == {i \in 1..moteur[1].nb_series : ScoresAppel[i] > SEUIL_SCORE}

\* C7: for top_k >= 1 the result of rechercher has at most top_k entries, in
\* non-increasing order of score, all above the noise threshold; for a query
\* that has words, it has min(top_k, m) entries for the m titles that pass
\* the threshold, each one a different passing title with its own score, and
\* no passing title left out has a higher score than a returned one.
C7_ClassementSeuilEtPrefixe ==
    (appel.op = "rechercher" /\ appel.top_k >= 1) =>
        LET v == appel.valeur
            m == moteur[1]
        IN  /\ Len(v) <= appel.top_k
            /\ \A k \in 1..(Len(v) - 1) : v[k].score >= v[k + 1].score
            /\ \A k \in 1..Len(v) : v[k].score > SEUIL_SCORE
            /\ nettoyer(appel.arg) # "" =>
                 /\ Len(v) = Min({appel.top_k, Cardinality(Passants)})
                 /\ \A k \in 1..Len(v) :
                      \E i \in Passants : v[k].serie = m.series[i] /\ v[k].score = ScoresAppel[i]
                 /\ \A k, l \in 1..Len(v) : k # l => v[k].serie # v[l].serie
                 /\ \A i \in Passants :
                      m.series[i] \notin Range(TitresRendus)
                          => \A k \in 1..Len(v) : v[k].score >= ScoresAppel[i]

\* C7 happens: top_k titles of different scores were returned and a title
\* that passes the threshold was cut off
C7_Temoin ==
    /\ appel.op = "rechercher"
    /\ appel.top_k >= 2
    /\ Len(appel.valeur) = appel.top_k
    /\ appel.valeur[1].score > appel.valeur[2].score
    /\ Cardinality(Passants) > appel.top_k

\* C8: two titles of a result that have the same combined score are in the
\* order of the title list of the index.
C8_EgalitesDansLOrdreDesTitres ==
    appel.op = "rechercher" =>
        \A k, l \in 1..Len(appel.valeur) :
            (k < l /\ appel.valeur[k].score = appel.valeur[l].score)
                => IndexDe(moteur[1].series, appel.valeur[k].serie)
                     < IndexDe(moteur[1].series, appel.valeur[l].serie)

\* C9: the score of every result of rechercher is 3.0 times the base
\* similarity plus 15.0 times the contextual bonus plus the thematic bonus
\* plus the title bonus, the four of them being those of the title of the
\* result.
C9_ScoreCombine ==
    appel.op = "rechercher" =>
        \A k \in 1..Len(appel.valeur) :
            LET i == IndexDe(moteur[1].series, appel.valeur[k].serie)
                ss == SousScoresAppel
            IN  /\ i # 0
                /\ appel.valeur[k].score
                     = 3 * ss.scores_tfidf[i] + 15 * ss.bonus_contexte_idf[i]
                       + ss.bonus_iconique[i] + ss.bonus_titre[i]

\* C9 happens: a result whose four sub-scores are all positive
C9_Temoin ==
    /\ appel.op = "rechercher"
    /\ \E k \in 1..Len(appel.valeur) :
         LET i == IndexDe(moteur[1].series, appel.valeur[k].serie)
             ss == SousScoresAppel
         IN  /\ ss.scores_tfidf[i] > 0
             /\ ss.bonus_contexte_idf[i] > 0
             /\ ss.bonus_iconique[i] > 0
             /\ ss.bonus_titre[i] > 0

\* C10: the combined score of a result can be computed from its breakdown
\* alone: two results with the same breakdown have the same score.
C10_ScoreDepuisLeDetail ==
    appel.op = "rechercher" =>
        \A k, l \in 1..Len(appel.valeur) :
            appel.valeur[k].details = appel.valeur[l].details
                => appel.valeur[k].score = appel.valeur[l].score

\* C11: two calls of rechercher with the same query and top_k on the same
\* index give the same answer (titles, order, scores, breakdowns), whatever
\* happened between them: the answer being given equals the answer a client
\* kept from an earlier call with the same query and top_k on this index.
C11_MemeReponse ==
    (/\ appel.op = "rechercher"
     /\ precedent # None
     /\ moteur = Some(precedent[1].moteur)
     /\ appel.arg = precedent[1].arg
     /\ appel.top_k = precedent[1].top_k)
        => appel.valeur = precedent[1].valeur

\* the words that the enrichment added to the query being answered
SynonymesAjoutes ==
    Range(Synonymes(MotsOriginaux(appel.arg))) \ Range(MotsOriginaux(appel.arg))

\* document i holds a word of the query as typed and none of the added synonyms
SeulementLOriginal(i) ==
    LET mots == Range(Tokens(moteur[1].documents[i]))
    IN  /\ SynonymesAjoutes # {}
        /\ Range(MotsOriginaux(appel.arg)) \cap mots # {}
        /\ SynonymesAjoutes \cap mots = {}

\* scores_tfidf[i] for the enriched query, and for the query as typed
BaseEnrichie(i) ==
    ScoreTfidf(moteur[1],
               VecRequete(moteur[1], MotsEnrichis(MotsOriginaux(appel.arg), hash_seed)), i)
BaseOriginale(i) ==
    ScoreTfidf(moteur[1], VecRequete(moteur[1], MotsOriginaux(appel.arg)), i)

\* C12: for every title whose document matches the original term of the
\* query and not its synonym, the base similarity rechercher computes for the
\* enriched query is not lower than the base similarity of the original
\* term alone.
C12_EnrichissementMonotone ==
    appel.op = "rechercher" =>
        \A i \in 1..moteur[1].nb_series :
            SeulementLOriginal(i) => BaseEnrichie(i) >= BaseOriginale(i)

\* the index holds only lostvf, whose document has the words island, plane,
\* crash and wreck, and breakingbad, whose document has meth and drug
IndexDuScenario ==
    /\ moteur # None
    /\ Range(moteur[1].series) = {"lostvf", "breakingbad"}
    /\ {"island", "plane", "crash", "wreck"}
           \subseteq Range(Tokens(DictGet(moteur[1].corpus, "lostvf")))
    /\ {"meth", "drug"} \subseteq Range(Tokens(DictGet(moteur[1].corpus, "breakingbad")))

\* C13: on the index of the scenario, rechercher("avion") returns lostvf,
\* first, and the combined score of lostvf is strictly greater than that of
\* breakingbad.
C13_AvionDonneLost ==
    (IndexDuScenario /\ appel.op = "rechercher" /\ nettoyer(appel.arg) = "avion") =>
        /\ appel.valeur # <<>>
        /\ appel.valeur[1].serie = "lostvf"
        /\ appel.valeur[1].score = ScoresAppel[IndexDe(moteur[1].series, "lostvf")]
        /\ ScoresAppel[IndexDe(moteur[1].series, "lostvf")]
             > ScoresAppel[IndexDe(moteur[1].series, "breakingbad")]
        /\ \A k \in 1..Len(appel.valeur) :
             appel.valeur[k].serie = "breakingbad" => k > 1

\* C13 happens: the query Avion was answered on the index of the scenario
C13_Temoin ==
    /\ IndexDuScenario
    /\ appel.op = "rechercher"
    /\ nettoyer(appel.arg) = "avion"
    /\ appel.top_k >= 1

\* the rows the recommendation being answered starts from: the row of the
\* asked title, or the rows of the liked titles that are in the index
IndicesDepart ==
    IF appel.op = "similarite"
    THEN (IF appel.arg \in Range(systeme_reco[1].series)
          THEN <<IndexDe(systeme_reco[1].series, appel.arg)>> ELSE <<>>)
    ELSE IndicesAimes(systeme_reco[1], appel.arg)

\* the similarity of every title for the recommendation being answered
ScoresReco ==
    IF appel.op = "similarite"
    THEN ScoresSimilarite(systeme_reco[1], IndicesDepart[1])
    ELSE ScoresProfil(systeme_reco[1], IndicesDepart)

\* the titles that may be recommended: not a title the call started from,
\* and similarity strictly above the floor
Eligibles ==
    LET depart == IndicesDepart
        scores == IF depart = <<>> THEN <<>> ELSE ScoresReco
    IN  IF depart = <<>> THEN {}
        ELSE {i \in 1..systeme_reco[1].nb_series :
                 i \notin Range(depart) /\ scores[i] > SEUIL_SIMILARITE}

\* C14: for top_k >= 1 the result of both recommenders has at most top_k
\* entries, in non-increasing order of similarity, all strictly above the
\* floor 0.15; it holds min(top_k, e) different titles of the e eligible
\* ones, each with its own similarity, and no eligible title left out has a
\* higher similarity than a returned one.
C14_RecommandationsClassees ==
    (appel.op \in {"similarite", "profil"} /\ appel.top_k >= 1) =>
        LET v == appel.valeur
            m == systeme_reco[1]
            eligibles == Eligibles
            scores == IF eligibles = {} THEN <<>> ELSE ScoresReco
        IN  /\ Len(v) <= appel.top_k
            /\ \A k \in 1..(Len(v) - 1) : v[k].score >= v[k + 1].score
            /\ \A k \in 1..Len(v) : v[k].score > 150
            /\ Len(v) = Min({appel.top_k, Cardinality(eligibles)})
            /\ \A k \in 1..Len(v) :
                 \E i \in eligibles : v[k].serie = m.series[i] /\ v[k].score = scores[i]
            /\ \A k, l \in 1..Len(v) : k # l => v[k].serie # v[l].serie
            /\ \A i \in eligibles :
                 m.series[i] \notin Range(TitresRendus)
                     => \A k \in 1..Len(v) : v[k].score >= scores[i]

\* C14 happens: two recommendations of different similarity were returned
\* and an eligible title was cut off by top_k
C14_Temoin ==
    /\ appel.op \in {"similarite", "profil"}
    /\ appel.top_k = 2
    /\ Len(appel.valeur) = 2
    /\ appel.valeur[1].score > appel.valeur[2].score
    /\ Cardinality(Eligibles) > 2

\* two engines have the same title list, vocabulary, IDF table and matrix shape
MemeStructure(a, b) ==
    /\ a.series = b.series
    /\ a.vocabulaire = b.vocabulaire
    /\ a.idf_map = b.idf_map
    /\ Len(a.matrice) = Len(b.matrice)
    /\ \A i \in 1..Len(a.matrice) : DOMAIN a.matrice[i] = DOMAIN b.matrice[i]

Coherent(o) ==
    /\ o # None
    /\ Len(o[1].matrice) = Len(o[1].series)
    /\ Len(o[1].documents) = Len(o[1].series)
    /\ o[1].nb_series = Len(o[1].series)
    /\ DOMAIN o[1].idf_map = o[1].vocabulaire

\* C16: after initialiser_moteur has returned, the engine and the
\* recommender in use are complete and consistent, also when they come from
\* the cache: a snapshot that is incomplete or inconsistent is not installed.
C16_CacheValide ==
    etat = "pret" => (Coherent(moteur) /\ Coherent(systeme_reco))

\* the subtitle tree gives a corpus an engine can be built from
Constructible ==
    LET c == charger_sous_titres(arbre)
    IN  ~c.raised /\ c.corpus # <<>> /\ ~MoteurRaises(c.corpus)

\* C17: a run of initialiser_moteur that finds a cache file that does not
\* deserialize goes on to read the source corpus; it ends without an engine
\* only for a reason of the corpus, and otherwise installs the engine rebuilt
\* from the corpus as moteur and systeme_reco, and the cache file is then the
\* snapshot of that engine (when the write goes through; a failed write
\* leaves no loadable file).
C17_CacheCorrompuReconstruit ==
    [][(etat = "init" /\ cache.etat = "corrompu" /\ etat' # "init") =>
          /\ charge' # None
          /\ charge'[1].cache_trouve = "corrompu"
          /\ charge'[1].corpus = charger_sous_titres(arbre).corpus
          /\ etat' = "pret" <=> Constructible
          /\ etat' = "pret" =>
               /\ moteur' = Some(Moteur(charge'[1].corpus))
               /\ systeme_reco' = moteur'
               /\ charge'[1].ecriture = "ok" => cache' = CacheDe(moteur', systeme_reco')
               /\ charge'[1].ecriture # "ok" => cache'.etat # "valide"]_vars

\* C17 happens: a cache file that did not load was found, the engine was
\* rebuilt and a fresh snapshot written
C17_Temoin ==
    /\ charge # None
    /\ charge[1].cache_trouve = "corrompu"
    /\ etat = "pret"
    /\ cache.etat = "valide"

\* C18: when initialiser_moteur found no usable cache and the source root is
\* missing or has no title directory, the process exits: no engine is
\* installed, no cache is written; and the process exits in that case only.
C18_CorpusVideFatal ==
    /\ (charge # None /\ DossiersDeTitres = <<>>) =>
           /\ etat = "exit"
           /\ charge[1].corpus = <<>>
           /\ moteur = None
           /\ systeme_reco = None
           /\ charge[1].ecriture = "aucune"
           /\ cache.etat # "valide"
    /\ etat = "exit" => (charge # None /\ charge[1].corpus = <<>>)

\* C18 happens: the process stopped on a root that exists and holds no title
\* directory
C18_Temoin ==
    /\ etat = "exit"
    /\ arbre.exists
    /\ DossiersDeTitres = <<>>

\* C19: charger_sous_titres always completes, whatever file, archive,
\* member or title directory cannot be read, and every title directory that
\* can be read is loaded with the text of its readable captions.
C19_ChargementJamaisInterrompu ==
    charge # None =>
        /\ ~charge[1].raised
        /\ \A n \in 1..Len(DossiersDeTitres) :
             LET d == DossiersDeTitres[n]
             IN  d.listable =>
                     /\ DictHas(charge[1].corpus, d.nom)
                     /\ DictGet(charge[1].corpus, d.nom)
                          = texte_nettoye(d.nom, lire_dossier(d.fichiers))

\* the answer in the state is the one the call gives on the index of the
\* state, run alone
ReponseSeule ==
    CASE appel.op = "rechercher" ->
             appel.valeur = rechercher(moteur[1], appel.arg, appel.top_k,
                                       hash_seed, argsort_kind).valeur
      [] appel.op = "similarite" ->
             appel.valeur = recommander_par_similarite(systeme_reco[1], appel.arg, appel.top_k,
                                                       argsort_kind).valeur
      [] appel.op = "profil" ->
             appel.valeur = recommander_par_profil(systeme_reco[1], appel.arg, appel.top_k,
                                                   argsort_kind).valeur
      [] OTHER -> TRUE

EnrichisAppel == MotsEnrichis(MotsOriginaux(appel.arg), hash_seed)

\* C25: the thematic boost of a title is non-zero only when at least 75% of
\* the enriched query terms (the original words and the added synonyms)
\* occur as substrings of that title's document.
C25_BoostAuxTroisQuartsDesEnrichis ==
    (appel.op = "rechercher" /\ moteur # None /\ nettoyer(appel.arg) # "") =>
        LET m == moteur[1]
            enrichis == EnrichisAppel
            ss == SousScoresAppel
        IN  \A i \in 1..m.nb_series :
                ss.bonus_iconique[i] # 0 =>
                    100 * Cardinality(MotsTrouves(m, enrichis, i)) >= 75 * Len(enrichis)

\* the enriched terms of the answered query that are literal substrings of
\* document i
TermesPresents(i) ==
    {k \in 1..Len(EnrichisAppel) : Contains(moteur[1].documents[i], EnrichisAppel[k])}

\* C26 as stated: the contextual bonus of a title is the sum, over every
\* enriched query term that is a literal substring of its document, of the
\* weight the IDF table holds for that term, divided by the number of
\* original query terms.
C26_BonusContexteDeLaTable ==
    (appel.op = "rechercher" /\ moteur # None /\ nettoyer(appel.arg) # "") =>
        LET m == moteur[1]
            enrichis == EnrichisAppel
            ss == SousScoresAppel
            n == Len(MotsOriginaux(appel.arg))
        IN  \A i \in 1..m.nb_series :
                LET dans_la_table == {k \in TermesPresents(i) : enrichis[k] \in DOMAIN m.idf_map}
                IN  ss.bonus_contexte_idf[i]
                        = SumSet([k \in dans_la_table |-> m.idf_map[enrichis[k]]], dans_la_table)
                              \div n

\* C26 amended: the contextual bonus of a title is the sum, over every
\* enriched query term that is a literal substring of its document, of the
\* weight the IDF table holds for that term, or of 1.0 when the table has no
\* entry for the term, divided by the number of original query terms; every
\* result carries that value as its detail.
C26_BonusContexteAvecDefaut ==
    (appel.op = "rechercher" /\ moteur # None /\ nettoyer(appel.arg) # "") =>
        LET m == moteur[1]
            enrichis == EnrichisAppel
            ss == SousScoresAppel
            n == Len(MotsOriginaux(appel.arg))
            Attendu(i) ==
                LET presents == TermesPresents(i)
                IN  SumSet([k \in presents |->
                               IF enrichis[k] \in DOMAIN m.idf_map
                               THEN m.idf_map[enrichis[k]] ELSE UN], presents) \div n
        IN  /\ \A i \in 1..m.nb_series : ss.bonus_contexte_idf[i] = Attendu(i)
            /\ \A k \in 1..Len(appel.valeur) :
                   \E i \in 1..m.nb_series :
                       /\ m.series[i] = appel.valeur[k].serie
                       /\ appel.valeur[k].details.contexte = Attendu(i)

\* C26 happens: a result whose document holds a query term as a substring
\* for which the IDF table has no entry, and whose contextual detail is 1.0
C26_Temoin ==
    /\ appel.op = "rechercher"
    /\ moteur # None
    /\ \E k \in 1..Len(appel.valeur), i \in 1..moteur[1].nb_series :
           /\ moteur[1].series[i] = appel.valeur[k].serie
           /\ appel.valeur[k].details.contexte = UN
           /\ \E b \in TermesPresents(i) : EnrichisAppel[b] \notin DOMAIN moteur[1].idf_map

\* C27: a title gets the title-match bonus exactly when the space-joined
\* original query terms are a substring of its slug (or the slug starts with
\* them); the bonus is then 3.0 times the number of original terms, and 0
\* otherwise.
C27_BonusTitre ==
    (appel.op = "rechercher" /\ moteur # None /\ nettoyer(appel.arg) # "") =>
        LET m == moteur[1]
            originaux == MotsOriginaux(appel.arg)
            ss == SousScoresAppel
        IN  \A i \in 1..m.nb_series :
                ss.bonus_titre[i]
                    = IF Contains(m.series[i], Join(originaux, " "))
                         \/ StartsWith(m.series[i], Join(originaux, " "))
                      THEN 3 * UN * Len(originaux)
                      ELSE 0

\* C27 happens: a query of two words that a slug holds, returned with the
\* bonus 6.0 beside a title without the bonus
C27_Temoin ==
    /\ appel.op = "rechercher"
    /\ moteur # None
    /\ Len(MotsOriginaux(appel.arg)) = 2
    /\ \E k \in 1..Len(appel.valeur), i, j \in 1..moteur[1].nb_series :
           /\ moteur[1].series[i] = appel.valeur[k].serie
           /\ SousScoresAppel.bonus_titre[i] = 6 * UN
           /\ SousScoresAppel.bonus_titre[j] = 0

\* C29: for any top_k <= 0, rechercher looks only at the first title of the
\* ranking and returns at most one result: that title, with its score, when
\* its score exceeds 0.001, and the empty list otherwise; it never returns
\* an empty list when the first title of the ranking passes the threshold.
C29_TopKNulOuNegatif ==
    (appel.op = "rechercher" /\ appel.top_k <= 0 /\ moteur # None) =>
        /\ ~appel.raised
        /\ Len(appel.valeur) <= 1
        /\ IF nettoyer(appel.arg) = "" THEN appel.valeur = <<>>
           ELSE LET scores == ScoresAppel
                    premier == ArgsortDesc(scores, argsort_kind)[1]
                IN  IF scores[premier] > SEUIL_SCORE
                    THEN /\ Len(appel.valeur) = 1
                         /\ appel.valeur[1].serie = moteur[1].series[premier]
                         /\ appel.valeur[1].score = scores[premier]
                         /\ \A i \in 1..moteur[1].nb_series : scores[i] <= scores[premier]
                    ELSE appel.valeur = <<>>

\* C29 happens: a negative top_k, several titles above the threshold, one
\* result
C29_Temoin ==
    /\ appel.op = "rechercher"
    /\ appel.top_k < 0
    /\ moteur # None
    /\ Len(appel.valeur) = 1
    /\ Cardinality(Passants) >= 2

\* the answer this process gives to the query the client kept
ReponseActuelle ==
    rechercher(moteur[1], precedent[1].arg, precedent[1].top_k, hash_seed, argsort_kind).valeur

C28_IndexDuCorpusActuel ==
    (etat = "pret" /\ moteur # None) =>
        LET c == charger_sous_titres(arbre)
        IN  /\ ~c.raised
            /\ c.corpus # <<>>
            /\ ~MoteurRaises(c.corpus)
            /\ moteur[1].series = Moteur(c.corpus).series
            /\ moteur[1].matrice = Moteur(c.corpus).matrice

\* the characters of a text, in order
Caracteres(s) == [i \in 1..Len(s) |-> Ch(s, i)]

LettresEtChiffres == AsciiLower \cup DigitChars \cup AccentChars \cup {O_UMLAUT}

\* C24: nettoyer preserves accented letters: every accented letter of the
\* input is in the output, lowercased, at the same place among the kept
\* characters, never replaced by a space and never dropped: the letters and
\* digits of the lowercased input, in order, are the characters of the
\* output that are not spaces.
C24_LettresAccentueesGardees ==
    propre # None =>
        SelectSeq(Caracteres(LowerStr(texte)), LAMBDA c : c \in LettresEtChiffres)
            = SelectSeq(Caracteres(propre[1]), LAMBDA c : c # " ")

\* C21: the (re)build step of initialiser_moteur never runs concurrently
\* with itself: of the concurrent invocations, at most one at a time is
\* between the start of the build and the end of the cache write.
C21_UnSeulConstructeur ==
    \A p, q \in Processus :
        (/\ invocations[p] \in {"construction", "ecriture"}
         /\ invocations[q] \in {"construction", "ecriture"}) => p = q

\* C30: every connection that a handler or preparer_mapping_bdd took from
\* the pool is back in the pool when the request is over, on every path,
\* the paths where a query raises among them: after any sequence of
\* requests no connection is checked out, so that the pool of 10 is never
\* exhausted.
C30_AucuneConnexionSortie == connection_pool = 0

=============================================================================
